---- MODULE Spec2Model ----
(***************************************************************************)
(* Users, orders and order items of the nest-learning backend: the three   *)
(* services (UserService, OrderService, OrderItemService), their GraphQL   *)
(* resolvers and the relational store they write to (tables users, orders, *)
(* orderItem with ON DELETE CASCADE foreign keys, a unique index on        *)
(* users.email, numeric(10,2) money columns and the orders_status_enum).   *)
(*                                                                         *)
(* users, orders and items hold the committed rows, which is what every    *)
(* reader sees.  A request is served in several steps: rows written by a   *)
(* save() stay in the request's transaction (txUsers, txOrders, txItems)   *)
(* until its commit; a delete reads first and removes in a later step.     *)
(***************************************************************************)
EXTENDS Integers, Sequences, FiniteSets, TLC

\* ------------------------------------------------------------------ bounds
MaxUserIds == 2        \* user ids the store hands out in one run
MaxOrderIds == 2       \* order ids the store hands out in one run
MaxItemIds == 3        \* order item ids the store hands out in one run
MaxItemIdsNarrow == 2  \* the same, in the concurrent runs
MaxItemsPerOrder == 2  \* longest orderItems list of a createOrder input

numUsers == 2           \* users the seed script makes (1000 in the script)
numOrdersPerUser == 2   \* orders it makes for a user (10 in the script)
numItemsPerOrder == 2   \* items it makes for an order (3 in the script)
batchSize == 3          \* rows of one insert of the script (1000)
MaxMigrations == 2      \* runs of the migration

Clients == {"c1", "c2"}   \* requests the host serves concurrently

\* ------------------------------------------------------- program constants
NameMinLen == 2
NameMaxLen == 100
ArrayMinSize == 1
NumericWholeLimit == 100000000   \* numeric(10,2): at most 8 integer digits
OrderStatusEnum == {"pending", "paid", "shipped", "cancelled"}

\* An id no store ever generated (a client-made UUID).
UnknownId == 0

\* ------------------------------------------------------------------ inputs
\* A decimal as the client sends it: whole part and thousandths.
Dec(w, m) == [whole |-> w, milli |-> m]
NoDec == Dec(0, 0)

NameOfLen(n) == [i \in 1..n |-> "x"]
ValidEmails == {"a@x.io", "b@x.io"}
Item(q, p) == [quantity |-> q, unitPrice |-> p]

\* The inputs of the concurrent runs, and the wider ones of the runs that
\* serve one request at a time.
Narrow == [names |-> {NameOfLen(2)},
           emails |-> ValidEmails,
           statuses |-> {"paid", "refunded"},
           costs |-> {Dec(100, 5), Dec(99999999, 995)},
           items |-> {Item(2, Dec(10, 5)), Item(1, Dec(100000000, 0))},
           times |-> {1},
           maxItemIds |-> MaxItemIdsNarrow]
Wide == [names |-> {NameOfLen(1), NameOfLen(2), NameOfLen(101)},
         emails |-> ValidEmails \cup {"not-an-email"},
         statuses |-> {"pending", "paid", "refunded", ""},
         costs |-> {Dec(100, 0), Dec(100, 5), Dec(99999999, 995)},
         items |-> {Item(1, Dec(10, 0)), Item(2, Dec(10, 5)),
                    Item(1, Dec(100000000, 0))},
         times |-> {1},
         maxItemIds |-> MaxItemIds]
\* The inputs of the runs that vary what the fields of a request hold.
Fields == [names |-> {NameOfLen(1), NameOfLen(2), NameOfLen(100),
                      NameOfLen(101)},
           emails |-> ValidEmails \cup {"not-an-email"},
           statuses |-> OrderStatusEnum \cup {"refunded", ""},
           costs |-> {Dec(100, 0)},
           items |-> {Item(1, Dec(10, 0))},
           times |-> {1, 2},
           maxItemIds |-> MaxItemIdsNarrow]
ItemLists(D) == UNION {[1..n -> D.items] : n \in 0..MaxItemsPerOrder}

\* ------------------------------------------------------------- the columns
\* Mutant: the extra digits are cut off.
NumericTruncate(d) == [whole |-> d.whole, cents |-> d.milli \div 10]

\* numeric(10,2): the value is rounded half away from zero to two
\* fractional digits (inputs here are non-negative).
NumericRound(d) ==
    LET c == (d.milli + 5) \div 10
    IN  IF c >= 100 THEN [whole |-> d.whole + 1, cents |-> c - 100]
                    ELSE [whole |-> d.whole, cents |-> c]

\* numeric(10,2): the rounded value must have at most 8 integer digits.
NumericFits(d) == NumericRound(d).whole < NumericWholeLimit

\* A stored numeric(10,2) value read back as a decimal.
AsDec(n) == Dec(n.whole, n.cents * 10)

\* Mutant: the status column takes any text.
StatusAnyText(s) == TRUE

\* status column: orders_status_enum.
StatusFits(s) == s \in OrderStatusEnum

VARIABLES users, orders, items, nextUserId, nextOrderId, nextItemId, req,
          seed, schema, mig

vars == <<users, orders, items, nextUserId, nextOrderId, nextItemId, req,
          seed, schema, mig>>
store == <<users, orders, items>>

Ids(rows) == {r.id : r \in rows}
Range(s) == {s[i] : i \in 1..Len(s)}

NoGraph == [users |-> {}, orders |-> {}, items |-> {}]

Idle == [op |-> "idle", pc |-> "idle", err |-> "",
         id |-> UnknownId, name |-> <<>>, email |-> "",
         status |-> "", totalCost |-> NoDec, orderItems |-> <<>>,
         quantity |-> 0, unitPrice |-> NoDec,
         txUsers |-> {}, txOrders |-> {}, txItems |-> <<>>,
         written |-> 0, found |-> NoGraph]

\* The seed script: where it is, the arrays it has built in memory and how
\* many elements of the array at hand it has inserted.  NoSeed: not running.
NoSeed == [pc |-> "off", users |-> <<>>, usedEmails |-> {},
           orders |-> <<>>, items |-> <<>>, inserted |-> 0]

\* The users table is not made by the migration, whose foreign key refers to
\* it: it is the table of the User entity, empty when the program starts.
UsersTable ==
    /\ users = {}
    /\ nextUserId = 1

\* What the migration makes and reverts: the orders and "orderItem" tables,
\* the enum type of orders.status, and the foreign keys orders.userId ->
\* users.id (userKey) and "orderItem".orderId -> orders.id (orderKey).
SchemaUp == [orders |-> TRUE, items |-> TRUE, enum |-> TRUE,
             userKey |-> TRUE, orderKey |-> TRUE]

\* A run of the migration: the method (up, down, or off: none runs), the
\* statement or lock it is at, whether the caller wrapped it in a
\* transaction, the table locks it holds, the schema as its statements left
\* it, and the runs begun so far.
NoMigration == [op |-> "off", pc |-> 0, tx |-> FALSE, locks |-> {},
                schema |-> SchemaUp, runs |-> 0]

\* Migration1759570629698.up has run: CREATE TABLE "orderItem", CREATE TYPE
\* orders_status_enum, CREATE TABLE "orders" and the two foreign keys.  The
\* two tables hold no row.
MigratedTables ==
    /\ orders = {}
    /\ items = {}
    /\ schema = SchemaUp
    /\ mig = NoMigration

\* The program started on the migrated schema: no row, no id generated, no
\* request in progress.
Init ==
    /\ UsersTable
    /\ MigratedTables
    /\ nextOrderId = 1
    /\ nextItemId = 1
    /\ req = [c \in Clients |-> Idle]
    /\ seed = NoSeed

\* A table lock: ROW SHARE or ACCESS SHARE of a reading statement ("r"), ROW
\* EXCLUSIVE of a writing one ("w"), SHARE ROW EXCLUSIVE of ALTER TABLE ADD
\* FOREIGN KEY ("s"), ACCESS EXCLUSIVE of DROP CONSTRAINT and DROP TABLE ("x").
TableLock(t, m) == [table |-> t, mode |-> m]

\* The lock a request wants (r, w) against the lock a migration has (s, x).
Conflicts(m, h) == h = "x" \/ m = "w"

\* The statement would wait: the migration holds a conflicting lock on l's
\* table.
LockedOut(l) ==
    \E h \in mig.locks : h.table = l.table /\ Conflicts(l.mode, h.mode)

\* A statement takes its table locks in order and waits at the first one it
\* cannot have.
Blocked(ls) == \E j \in 1..Len(ls) : LockedOut(ls[j])

\* Table locks of the statements, in the order they are taken; a statement
\* that names a missing table (relation does not exist) stops there.
\* SELECT ... FROM users LEFT JOIN orders LEFT JOIN "orderItem"
FindOneLocks ==
    <<TableLock("users", "r")>>
    \o (IF schema.orders THEN <<TableLock("orders", "r")>> ELSE <<>>)
    \o (IF schema.orders /\ schema.items
          THEN <<TableLock("orderItem", "r")>> ELSE <<>>)

\* SELECT ... FROM orders LEFT JOIN "orderItem"
OrderFindLocks ==
    (IF schema.orders THEN <<TableLock("orders", "r")>> ELSE <<>>)
    \o (IF schema.orders /\ schema.items
          THEN <<TableLock("orderItem", "r")>> ELSE <<>>)

\* SELECT / DELETE on "orderItem"
ItemLocks(m) ==
    IF schema.items THEN <<TableLock("orderItem", m)>> ELSE <<>>

\* INSERT INTO users
UserInsertLocks == <<TableLock("users", "w")>>

\* INSERT INTO orders, then the check of its foreign key on users if the
\* row was taken.
OrderInsertLocks(taken) ==
    (IF schema.orders THEN <<TableLock("orders", "w")>> ELSE <<>>)
    \o (IF schema.orders /\ schema.userKey /\ taken
          THEN <<TableLock("users", "r")>> ELSE <<>>)

\* INSERT INTO "orderItem", then the check of its foreign key on orders.
ItemInsertLocks(taken) ==
    (IF schema.items THEN <<TableLock("orderItem", "w")>> ELSE <<>>)
    \o (IF schema.items /\ schema.orderKey /\ taken
          THEN <<TableLock("orders", "r")>> ELSE <<>>)

\* DELETE FROM users, then the cascade of each foreign key that is there
\* for each row removed.
UserDeleteLocks(id) ==
    <<TableLock("users", "w")>>
    \o (IF schema.userKey /\ id \in {u.id : u \in users}
          THEN <<TableLock("orders", "w")>> ELSE <<>>)
    \o (IF schema.userKey /\ schema.orderKey
             /\ \E o \in orders : o.userId = id
          THEN <<TableLock("orderItem", "w")>> ELSE <<>>)

\* DELETE FROM orders, then the cascade.
OrderDeleteLocks(id) ==
    (IF schema.orders THEN <<TableLock("orders", "w")>> ELSE <<>>)
    \o (IF schema.orderKey /\ id \in {o.id : o \in orders}
          THEN <<TableLock("orderItem", "w")>> ELSE <<>>)

\* Ids a client can name: the ones generated so far, and one that never was.
KnownUserIds == {UnknownId} \cup (1..(nextUserId - 1))
KnownOrderIds == {UnknownId} \cup (1..(nextOrderId - 1))
KnownItemIds == {UnknownId} \cup (1..(nextItemId - 1))

\* Rows the open transaction of a request has written.
RowsWritten(r) ==
    Cardinality(r.txUsers) + Cardinality(r.txOrders) + Len(r.txItems)

\* A response carries the error (written: how many rows the transaction had
\* written when it was rolled back), or the entity graph the handler returns.
Failed(c, e) == [Idle EXCEPT !.op = req[c].op, !.pc = "failed", !.err = e,
                             !.written = RowsWritten(req[c])]
Done(c, g) == [Idle EXCEPT !.op = req[c].op, !.pc = "done", !.found = g]

\* The handler throws: its open transaction is rolled back.
Fail(c, e) == req' = [req EXCEPT ![c] = Failed(c, e)]

\* ------------------------------------------------------------ the readers
ItemsOfOrders(os, is) == {i \in is : i.orderId \in Ids(os)}
OrdersOfUser(id, os) == {o \in os : o.userId = id}

\* OrderService.findAll: every order with its user and its items.
OrdersFindAll ==
    {[order |-> o,
      user |-> {u \in users : u.id = o.userId},
      orderItem |-> ItemsOfOrders({o}, items)] : o \in orders}

\* OrderItemService.findAll
OrderItemsFindAll == items

\* Mutant: the items of the orders are not loaded.
FindOneWithoutItems(id) ==
    LET us == {u \in users : u.id = id}
    IN  [users |-> us,
         orders |-> IF us = {} THEN {} ELSE OrdersOfUser(id, orders),
         items |-> {}]

\* UserService.findOne: the user with its orders and their items.
FindOne(id) ==
    LET us == {u \in users : u.id = id}
        os == IF us = {} THEN {} ELSE OrdersOfUser(id, orders)
    IN  [users |-> us, orders |-> os, items |-> ItemsOfOrders(os, items)]

\* UserResolver.user -> UserService.findOne: the user with its orders and
\* their items is returned, or null (no user in the graph) if there is none.
UserQuery(c, id) ==
    /\ req[c].pc = "idle"
    /\ ~Blocked(FindOneLocks)
    /\ LET r == [Idle EXCEPT !.op = "user", !.id = id]
       IN  IF ~(schema.orders /\ schema.items)
             THEN req' = [req EXCEPT ![c] = [r EXCEPT !.pc = "failed",
                                             !.err = "QueryFailedError"]]
             ELSE req' = [req EXCEPT ![c] = [r EXCEPT !.pc = "done",
                                             !.found = FindOne(id)]]
    /\ UNCHANGED <<store, nextUserId, nextOrderId, nextItemId>>
    /\ UNCHANGED <<seed, schema, mig>>

\* ------------------------------------------------------------- createUser
\* CreateUserInputDTO: @Length(2, 100) name, @IsEmail() email.
IsEmail(e) == e \in ValidEmails

\* Mutant: the length of the name is not checked.
CreateUserInputAnyName(name, email) == IsEmail(email)

CreateUserInputValid(name, email) ==
    /\ Len(name) >= NameMinLen
    /\ Len(name) <= NameMaxLen
    /\ IsEmail(email)

\* The validation pipe of the API boundary runs the DTO's rules.
ValidationPipe(valid) == valid

\* UserResolver.createUser -> UserService.createUser, up to the save().
CreateUserCall(c, name, email) ==
    /\ req[c].pc = "idle"
    /\ LET r == [Idle EXCEPT !.op = "createUser", !.name = name,
                              !.email = email]
       IN  IF ValidationPipe(CreateUserInputValid(name, email))
             THEN req' = [req EXCEPT ![c] = [r EXCEPT !.pc = "tx"]]
             ELSE req' = [req EXCEPT ![c] = [r EXCEPT !.pc = "failed",
                                             !.err = "ValidationError"]]
    /\ UNCHANGED <<store, nextUserId, nextOrderId, nextItemId>>
    /\ UNCHANGED <<seed, schema, mig>>

\* Mutants: no index lock; no unique index.
EmailNeverHeld(c, email) == FALSE
EmailNeverTaken(email) == FALSE

\* The unique index on users.email: a row with the same email that another
\* open transaction has written makes the insert wait for that transaction.
EmailHeldByOther(c, email) ==
    \E d \in Clients \ {c} : \E u \in req[d].txUsers : u.email = email
EmailTaken(email) == \E u \in users : u.email = email

\* Mutant: updatedAt is left at the epoch.
TimestampsNoUpdate(now) == [createdAt |-> now, updatedAt |-> 0]

\* @CreateDateColumn, @UpdateDateColumn: both columns DEFAULT now(), the
\* reading of the store's clock for the inserting transaction.
Timestamps(now) == [createdAt |-> now, updatedAt |-> now]

\* save(user): INSERT INTO users inside the save's transaction; now is what
\* the store's clock reads.
CreateUserInsert(c, now) ==
    /\ req[c].op = "createUser"
    /\ req[c].pc = "tx"
    /\ ~Blocked(UserInsertLocks)
    /\ ~EmailHeldByOther(c, req[c].email)
    /\ IF EmailTaken(req[c].email)
         THEN /\ Fail(c, "ConflictError")
              /\ UNCHANGED nextUserId
         ELSE /\ req' = [req EXCEPT ![c].pc = "inserted",
                            ![c].txUsers = {[id |-> nextUserId,
                                 name |-> req[c].name,
                                 email |-> req[c].email,
                                 createdAt |-> Timestamps(now).createdAt,
                                 updatedAt |-> Timestamps(now).updatedAt]}]
              /\ nextUserId' = nextUserId + 1
    /\ UNCHANGED <<store, nextOrderId, nextItemId>>
    /\ UNCHANGED <<seed, schema, mig>>

\* save(user): COMMIT; the saved entity is returned.
CreateUserCommit(c) ==
    /\ req[c].op = "createUser"
    /\ req[c].pc = "inserted"
    /\ users' = users \cup req[c].txUsers
    /\ req' = [req EXCEPT ![c] =
                   Done(c, [NoGraph EXCEPT !.users = req[c].txUsers])]
    /\ UNCHANGED <<orders, items, nextUserId, nextOrderId, nextItemId>>
    /\ UNCHANGED <<seed, schema, mig>>

\* ------------------------------------------------------------ createOrder
\* Mutant: the list may be empty.
OrderItemsAnySize(orderItems) == Len(orderItems) >= 0

\* CreateOrderInputDTO.orderItems: @ArrayMinSize(1).
OrderItemsValid(orderItems) == Len(orderItems) >= ArrayMinSize

\* CreateOrderInputDTO: @IsNotEmpty() on userId, status and totalCost.
CreateOrderInputValid(userId, status, totalCost, orderItems) ==
    /\ status # ""
    /\ OrderItemsValid(orderItems)

\* OrderResolver.createOrder -> OrderService.createOrder, up to the save().
CreateOrderCall(c, userId, status, totalCost, orderItems) ==
    /\ req[c].pc = "idle"
    /\ LET r == [Idle EXCEPT !.op = "createOrder", !.id = userId,
                     !.status = status, !.totalCost = totalCost,
                     !.orderItems = orderItems]
       IN  IF ValidationPipe(CreateOrderInputValid(userId, status,
                                                   totalCost, orderItems))
             THEN req' = [req EXCEPT ![c] = [r EXCEPT !.pc = "tx"]]
             ELSE req' = [req EXCEPT ![c] = [r EXCEPT !.pc = "failed",
                                             !.err = "ValidationError"]]
    /\ UNCHANGED <<store, nextUserId, nextOrderId, nextItemId>>
    /\ UNCHANGED <<seed, schema, mig>>

\* save() returns the entity it was given with the generated columns filled
\* in: the row is not read back, so an amount in it is the number the client
\* gave, not the one the numeric(10,2) column holds.
SavedOrder(row, totalCost) == [row EXCEPT !.totalCost = totalCost]
SavedItem(row, unitPrice) == [row EXCEPT !.unitPrice = unitPrice]

\* Mutant: the key is not checked.
UserKeyUnchecked(userId) == TRUE

\* The foreign key orders.userId -> users.id, checked when the row is
\* written: the referenced user must be a committed row.
UserKeyExists(userId) == userId \in Ids(users)

\* Mutant: every statement is committed on its own.
TxWriteAutocommit(table, rows) == table \cup rows

\* What a statement of an open transaction makes of a committed table: the
\* row it wrote stays private to the transaction until the commit.
TxWrite(table, rows) == table

\* The columns of orders take the row of the request.
OrderRowFits(c) ==
    StatusFits(req[c].status) /\ NumericFits(req[c].totalCost)

\* save(order): INSERT INTO orders inside the save's transaction.
CreateOrderInsertOrder(c) ==
    /\ req[c].op = "createOrder"
    /\ req[c].pc = "tx"
    /\ ~Blocked(OrderInsertLocks(OrderRowFits(c)))
    /\ IF ~schema.orders
         THEN /\ Fail(c, "QueryFailedError")
              /\ UNCHANGED <<orders, nextOrderId>>
         ELSE IF ~OrderRowFits(c)
         THEN /\ Fail(c, "DataError")
              /\ UNCHANGED <<orders, nextOrderId>>
         ELSE IF schema.userKey /\ ~UserKeyExists(req[c].id)
         THEN /\ Fail(c, "ForeignKeyError")
              /\ UNCHANGED <<orders, nextOrderId>>
         ELSE LET row == [id |-> nextOrderId, userId |-> req[c].id,
                          status |-> req[c].status,
                          totalCost |-> NumericRound(req[c].totalCost)]
              IN  /\ req' = [req EXCEPT ![c].pc = "order",
                                        ![c].txOrders = {row}]
                  /\ orders' = TxWrite(orders, {row})
                  /\ nextOrderId' = nextOrderId + 1
    /\ UNCHANGED <<users, items, nextUserId, nextItemId>>
    /\ UNCHANGED <<seed, schema, mig>>

\* save(order): INSERT INTO "orderItem" for the next element of orderItems
\* (cascade insert), inside the same transaction.
CreateOrderInsertItem(c) ==
    /\ req[c].op = "createOrder"
    /\ req[c].pc = "order"
    /\ Len(req[c].txItems) < Len(req[c].orderItems)
    /\ ~Blocked(ItemInsertLocks(TRUE))
    /\ LET in == req[c].orderItems[Len(req[c].txItems) + 1]
           row == [id |-> nextItemId,
                   orderId |-> (CHOOSE o \in req[c].txOrders : TRUE).id,
                   quantity |-> in.quantity,
                   unitPrice |-> NumericRound(in.unitPrice)]
       IN  IF ~schema.items
             THEN /\ Fail(c, "QueryFailedError")
                  /\ UNCHANGED <<orders, items, nextItemId>>
             ELSE IF ~NumericFits(in.unitPrice)
             THEN /\ Fail(c, "DataError")
                  /\ UNCHANGED <<orders, items, nextItemId>>
             ELSE /\ req' = [req EXCEPT ![c].txItems = Append(@, row)]
                  /\ items' = TxWrite(items, {row})
                  /\ nextItemId' = nextItemId + 1
                  /\ UNCHANGED orders
    /\ UNCHANGED <<users, nextUserId, nextOrderId>>
    /\ UNCHANGED <<seed, schema, mig>>

\* save(order): COMMIT; the order and its items become visible together and
\* the saved entity is returned.
CreateOrderCommit(c) ==
    /\ req[c].op = "createOrder"
    /\ req[c].pc = "order"
    /\ Len(req[c].txItems) = Len(req[c].orderItems)
    /\ orders' = orders \cup req[c].txOrders
    /\ items' = items \cup Range(req[c].txItems)
    /\ req' = [req EXCEPT ![c] =
                   Done(c, [NoGraph EXCEPT
                       !.orders = {SavedOrder(o, req[c].totalCost)
                                     : o \in req[c].txOrders},
                       !.items = {SavedItem(req[c].txItems[k],
                                            req[c].orderItems[k].unitPrice)
                                     : k \in 1..Len(req[c].txItems)}])]
    /\ UNCHANGED <<users, nextUserId, nextOrderId, nextItemId>>
    /\ UNCHANGED <<seed, schema, mig>>

\* -------------------------------------------------------- createOrderItem
\* Mutant: the foreign key of orderItem is not checked.
OrderKeyUnchecked(orderId) == TRUE

\* The foreign key "orderItem".orderId -> orders.id.
OrderKeyExists(orderId) == orderId \in Ids(orders)

\* OrderItemResolver.createOrderItem -> OrderItemService.createOrderItem.
CreateOrderItemCall(c, orderId, quantity, unitPrice) ==
    /\ req[c].pc = "idle"
    /\ req' = [req EXCEPT ![c] = [Idle EXCEPT !.op = "createOrderItem",
                     !.pc = "tx", !.id = orderId, !.quantity = quantity,
                     !.unitPrice = unitPrice]]
    /\ UNCHANGED <<store, nextUserId, nextOrderId, nextItemId>>
    /\ UNCHANGED <<seed, schema, mig>>

\* save(orderItem): one INSERT INTO "orderItem" and its commit.  The two are
\* one step: the transaction writes one row, and what it holds in between (a
\* key lock on the order, which makes a delete of the order wait) lets the
\* other requests see no state but the ones before and after.
CreateOrderItemSave(c) ==
    /\ req[c].op = "createOrderItem"
    /\ req[c].pc = "tx"
    /\ ~Blocked(ItemInsertLocks(NumericFits(req[c].unitPrice)))
    /\ IF ~schema.items
         THEN /\ Fail(c, "QueryFailedError")
              /\ UNCHANGED <<items, nextItemId>>
         ELSE IF ~NumericFits(req[c].unitPrice)
         THEN /\ Fail(c, "DataError")
              /\ UNCHANGED <<items, nextItemId>>
         ELSE IF schema.orderKey /\ ~OrderKeyExists(req[c].id)
         THEN /\ Fail(c, "ForeignKeyError")
              /\ UNCHANGED <<items, nextItemId>>
         ELSE LET row == [id |-> nextItemId, orderId |-> req[c].id,
                          quantity |-> req[c].quantity,
                          unitPrice |-> NumericRound(req[c].unitPrice)]
              IN  /\ items' = items \cup {row}
                  /\ nextItemId' = nextItemId + 1
                  /\ req' = [req EXCEPT ![c] =
                                 Done(c, [NoGraph EXCEPT !.items =
                                     {SavedItem(row, req[c].unitPrice)}])]
    /\ UNCHANGED <<users, orders, nextUserId, nextOrderId>>
    /\ UNCHANGED <<seed, schema, mig>>

\* ------------------------------------------------------------ the deletes
\* A row some open transaction references is locked against deletion until
\* that transaction ends.
UserLocked(id) ==
    \E d \in Clients : \E o \in req[d].txOrders : o.userId = id

\* Mutant: the existence check is left out.
NeverNotFound(rows) == FALSE

\* if (!entity) throw new NotFoundException(...): the find returned no row.
NotFound(rows) == rows = {}

\* Mutant: a remove whose DELETE affected no row reports the row as missing.
RemoveResultIfAffected(c, affected) ==
    IF affected THEN Done(c, req[c].found) ELSE Failed(c, "NotFoundError")

\* const deleted = { ...entity }; await remove(entity); return deleted: the
\* copy made before the remove is returned, and the number of rows the
\* DELETE affected is not looked at.
RemoveResult(c, affected) == Done(c, req[c].found)

\* Mutant: the cascade stops at the orders.
ItemsAfterUserDeleteOneLevel(id) == items

\* DELETE FROM users WHERE id = ..., with both ON DELETE CASCADE keys.
UsersAfterDelete(id) == {u \in users : u.id # id}
OrdersAfterUserDelete(id) == {o \in orders : o.userId # id}
ItemsAfterUserDelete(id) ==
    {i \in items : i.orderId \notin Ids(OrdersOfUser(id, orders))}

\* UserService.deleteUser: findOne with orders and their items.
DeleteUserFind(c, id) ==
    /\ req[c].pc = "idle"
    /\ ~Blocked(FindOneLocks)
    /\ LET g == FindOne(id)
           r == [Idle EXCEPT !.op = "deleteUser", !.id = id]
       IN  IF ~(schema.orders /\ schema.items)
             THEN req' = [req EXCEPT ![c] = [r EXCEPT !.pc = "failed",
                                             !.err = "QueryFailedError"]]
             ELSE IF NotFound(g.users)
             THEN req' = [req EXCEPT ![c] = [r EXCEPT !.pc = "failed",
                                             !.err = "NotFoundError"]]
             ELSE req' = [req EXCEPT ![c] = [r EXCEPT !.pc = "found",
                                             !.found = g]]
    /\ UNCHANGED <<store, nextUserId, nextOrderId, nextItemId>>
    /\ UNCHANGED <<seed, schema, mig>>

\* UserService.deleteUser: remove(user), and the copy is returned.  The
\* DELETE names the users table only: it runs on a reverted schema too, and
\* it takes with it what the foreign keys that are there make it take.
DeleteUserRemove(c) ==
    /\ req[c].op = "deleteUser"
    /\ req[c].pc = "found"
    /\ ~UserLocked(req[c].id)
    /\ ~Blocked(UserDeleteLocks(req[c].id))
    /\ users' = UsersAfterDelete(req[c].id)
    /\ orders' = IF schema.userKey THEN OrdersAfterUserDelete(req[c].id)
                                   ELSE orders
    /\ items' = IF schema.userKey /\ schema.orderKey
                  THEN ItemsAfterUserDelete(req[c].id)
                  ELSE items
    /\ req' = [req EXCEPT ![c] =
                   RemoveResult(c, req[c].id \in Ids(users))]
    /\ UNCHANGED <<nextUserId, nextOrderId, nextItemId>>
    /\ UNCHANGED <<seed, schema, mig>>

\* Mutant: the order's items are not removed with it.
ItemsAfterOrderDeleteNoCascade(id) == items

\* Mutant: the DELETE takes every order of the same user.
OrdersAfterDeleteOfOwner(id) ==
    {o \in orders : \A d \in orders : d.id = id => o.userId # d.userId}

\* Mutant: a soft delete, the order is kept and marked cancelled.
OrdersAfterDeleteSoft(id) ==
    {IF o.id = id THEN [o EXCEPT !.status = "cancelled"] ELSE o : o \in orders}

\* DELETE FROM orders WHERE id = ..., with its ON DELETE CASCADE key.
OrdersAfterDelete(id) == {o \in orders : o.id # id}
ItemsAfterOrderDelete(id) == {i \in items : i.orderId # id}

\* OrderService.deleteOrder: findOne with the order's items.
DeleteOrderFind(c, id) ==
    /\ req[c].pc = "idle"
    /\ ~Blocked(OrderFindLocks)
    /\ LET os == {o \in orders : o.id = id}
           r == [Idle EXCEPT !.op = "deleteOrder", !.id = id]
       IN  IF ~(schema.orders /\ schema.items)
             THEN req' = [req EXCEPT ![c] = [r EXCEPT !.pc = "failed",
                                             !.err = "QueryFailedError"]]
             ELSE IF NotFound(os)
             THEN req' = [req EXCEPT ![c] = [r EXCEPT !.pc = "failed",
                                             !.err = "NotFoundError"]]
             ELSE req' = [req EXCEPT ![c] = [r EXCEPT !.pc = "found",
                             !.found = [NoGraph EXCEPT !.orders = os,
                                 !.items = ItemsOfOrders(os, items)]]]
    /\ UNCHANGED <<store, nextUserId, nextOrderId, nextItemId>>
    /\ UNCHANGED <<seed, schema, mig>>

\* OrderService.deleteOrder: remove(order), and the copy is returned.
DeleteOrderRemove(c) ==
    /\ req[c].op = "deleteOrder"
    /\ req[c].pc = "found"
    /\ ~Blocked(OrderDeleteLocks(req[c].id))
    /\ IF ~schema.orders
         THEN /\ Fail(c, "QueryFailedError")
              /\ UNCHANGED <<orders, items>>
         ELSE /\ orders' = OrdersAfterDelete(req[c].id)
              /\ items' = IF schema.orderKey
                            THEN ItemsAfterOrderDelete(req[c].id)
                            ELSE items
              /\ req' = [req EXCEPT ![c] =
                             RemoveResult(c, req[c].id \in Ids(orders))]
    /\ UNCHANGED <<users, nextUserId, nextOrderId, nextItemId>>
    /\ UNCHANGED <<seed, schema, mig>>

\* Mutant: the DELETE takes every item of the same order.
ItemsAfterDeleteOfOrder(id) ==
    {i \in items : \A d \in items : d.id = id => i.orderId # d.orderId}

\* DELETE FROM "orderItem" WHERE id = ...
ItemsAfterDelete(id) == {i \in items : i.id # id}

\* OrderItemService.deleteOrderItem: findOneBy.
DeleteOrderItemFind(c, id) ==
    /\ req[c].pc = "idle"
    /\ ~Blocked(ItemLocks("r"))
    /\ LET is == {i \in items : i.id = id}
           r == [Idle EXCEPT !.op = "deleteOrderItem", !.id = id]
       IN  IF ~schema.items
             THEN req' = [req EXCEPT ![c] = [r EXCEPT !.pc = "failed",
                                             !.err = "QueryFailedError"]]
             ELSE IF NotFound(is)
             THEN req' = [req EXCEPT ![c] = [r EXCEPT !.pc = "failed",
                                             !.err = "NotFoundError"]]
             ELSE req' = [req EXCEPT ![c] = [r EXCEPT !.pc = "found",
                             !.found = [NoGraph EXCEPT !.items = is]]]
    /\ UNCHANGED <<store, nextUserId, nextOrderId, nextItemId>>
    /\ UNCHANGED <<seed, schema, mig>>

\* OrderItemService.deleteOrderItem: remove(orderItem).
DeleteOrderItemRemove(c) ==
    /\ req[c].op = "deleteOrderItem"
    /\ req[c].pc = "found"
    /\ ~Blocked(ItemLocks("w"))
    /\ IF ~schema.items
         THEN /\ Fail(c, "QueryFailedError")
              /\ UNCHANGED items
         ELSE /\ items' = ItemsAfterDelete(req[c].id)
              /\ req' = [req EXCEPT ![c] =
                             RemoveResult(c, req[c].id \in Ids(items))]
    /\ UNCHANGED <<users, orders, nextUserId, nextOrderId, nextItemId>>
    /\ UNCHANGED <<seed, schema, mig>>

\* The response is sent and the handler is gone.
Return(c) ==
    /\ req[c].pc \in {"done", "failed"}
    /\ req' = [req EXCEPT ![c] = Idle]
    /\ UNCHANGED <<store, nextUserId, nextOrderId, nextItemId>>
    /\ UNCHANGED <<seed, schema, mig>>

\* ------------------------------------------------------------- the bounds
\* Ids the requests in flight will still draw from the store.
UserIdsReserved ==
    Cardinality({d \in Clients : req[d].op = "createUser"
                                 /\ req[d].pc = "tx"})
OrderIdsReserved ==
    Cardinality({d \in Clients : req[d].op = "createOrder"
                                 /\ req[d].pc = "tx"})
RECURSIVE SumOver(_, _)
SumOver(S, f) ==
    IF S = {} THEN 0
    ELSE LET x == CHOOSE y \in S : TRUE IN f[x] + SumOver(S \ {x}, f)
ItemIdsReserved ==
    SumOver({d \in Clients : req[d].pc \in {"tx", "order"}},
            [d \in Clients |->
                IF req[d].op = "createOrder"
                  THEN Len(req[d].orderItems) - Len(req[d].txItems)
                  ELSE IF req[d].op = "createOrderItem" THEN 1 ELSE 0])

\* A request is taken only if the ids it needs are left.
UserIdsLeft == nextUserId + UserIdsReserved <= MaxUserIds
OrderIdsLeft == nextOrderId + OrderIdsReserved <= MaxOrderIds
ItemIdsLeft(D, n) == nextItemId + ItemIdsReserved + n - 1 <= D.maxItemIds

Step(c, D) ==
    \/ \E name \in D.names, email \in D.emails :
           UserIdsLeft /\ CreateUserCall(c, name, email)
    \/ \E now \in D.times : CreateUserInsert(c, now)
    \/ CreateUserCommit(c)
    \/ \E userId \in KnownUserIds, status \in D.statuses,
          totalCost \in D.costs, orderItems \in ItemLists(D) :
           /\ OrderIdsLeft
           /\ ItemIdsLeft(D, Len(orderItems))
           /\ CreateOrderCall(c, userId, status, totalCost, orderItems)
    \/ CreateOrderInsertOrder(c)
    \/ CreateOrderInsertItem(c)
    \/ CreateOrderCommit(c)
    \/ \E orderId \in KnownOrderIds, in \in D.items :
           /\ ItemIdsLeft(D, 1)
           /\ CreateOrderItemCall(c, orderId, in.quantity, in.unitPrice)
    \/ CreateOrderItemSave(c)
    \/ \E id \in KnownUserIds : UserQuery(c, id)
    \/ \E id \in KnownUserIds : DeleteUserFind(c, id)
    \/ DeleteUserRemove(c)
    \/ \E id \in KnownOrderIds : DeleteOrderFind(c, id)
    \/ DeleteOrderRemove(c)
    \/ \E id \in KnownItemIds : DeleteOrderItemFind(c, id)
    \/ DeleteOrderItemRemove(c)
    \/ Return(c)

\* Requests served concurrently.
Next == \E c \in Clients : Step(c, Narrow)

Spec == Init /\ [][Next]_vars

\* Requests served one at a time.
SeqClient == CHOOSE c \in Clients : TRUE
SeqNext == Step(SeqClient, Wide)

SeqSpec == Init /\ [][SeqNext]_vars

\* Requests served one at a time, with every kind of value in their fields.
FieldNext == Step(SeqClient, Fields)

FieldSpec == Init /\ [][FieldNext]_vars

\* ---------------------------------------------------------- the migration
\* The method awaits its statements one by one; a statement takes its table
\* locks, one after the other, and then changes the schema.
\* Steps of statement k: the lock of the table it names, the lock of the
\* table its foreign key refers to, and its change of the schema.
MigrationLock(k, t, m) ==
    [kind |-> "lock", table |-> t, mode |-> m, stmt |-> k, key |-> FALSE]
MigrationKeyLock(k, t, m) ==
    [kind |-> "lock", table |-> t, mode |-> m, stmt |-> k, key |-> TRUE]
MigrationQuery(k) ==
    [kind |-> "query", table |-> "", mode |-> "", stmt |-> k, key |-> FALSE]

\* Migration1759570629698.down: a DROP CONSTRAINT of a foreign key locks the
\* table and the table the key refers to.
DownSteps ==
    <<MigrationLock(1, "orders", "x"), MigrationKeyLock(1, "users", "x"),
      MigrationQuery(1),
      MigrationLock(2, "orderItem", "x"), MigrationKeyLock(2, "orders", "x"),
      MigrationQuery(2),
      MigrationLock(3, "orders", "x"), MigrationQuery(3),
      MigrationQuery(4),
      MigrationLock(5, "orderItem", "x"), MigrationQuery(5)>>

\* Migration1759570629698.up: an ADD CONSTRAINT of a foreign key locks the
\* table and the table the key refers to.
UpSteps ==
    <<MigrationQuery(1),
      MigrationQuery(2),
      MigrationQuery(3),
      MigrationLock(4, "orderItem", "s"), MigrationKeyLock(4, "orders", "s"),
      MigrationQuery(4),
      MigrationLock(5, "orders", "s"), MigrationKeyLock(5, "users", "s"),
      MigrationQuery(5)>>

StepsOf(op) == IF op = "down" THEN DownSteps ELSE UpSteps

\* The table is there in the schema s (users is not the migration's).
TableThere(s, t) ==
    \/ t = "users"
    \/ t = "orders" /\ s.orders
    \/ t = "orderItem" /\ s.items

\* down(), statement k on the schema s: whether the store takes it, and the
\* schema it leaves.  1: DROP CONSTRAINT of orders.userId; 2: DROP CONSTRAINT
\* of "orderItem".orderId; 3: DROP TABLE orders (refused while a foreign key
\* refers to it); 4: DROP TYPE (refused while a column has the type);
\* 5: DROP TABLE "orderItem".
DownTaken(k, s) ==
    CASE k = 1 -> s.userKey
      [] k = 2 -> s.orderKey
      [] k = 3 -> s.orders /\ ~s.orderKey
      [] k = 4 -> s.enum /\ ~s.orders
      [] k = 5 -> s.items
DownLeaves(k, s) ==
    CASE k = 1 -> [s EXCEPT !.userKey = FALSE]
      [] k = 2 -> [s EXCEPT !.orderKey = FALSE]
      [] k = 3 -> [s EXCEPT !.orders = FALSE, !.userKey = FALSE]
      [] k = 4 -> [s EXCEPT !.enum = FALSE]
      [] k = 5 -> [s EXCEPT !.items = FALSE, !.orderKey = FALSE]

\* up(), statement k on the schema s.  1: CREATE TABLE "orderItem";
\* 2: CREATE TYPE; 3: CREATE TABLE orders; 4 and 5: ADD CONSTRAINT FOREIGN
\* KEY, refused if a row of the table refers to no row.
UpTaken(k, s) ==
    CASE k = 1 -> ~s.items
      [] k = 2 -> ~s.enum
      [] k = 3 -> ~s.orders /\ s.enum
      [] k = 4 -> /\ s.items /\ s.orders /\ ~s.orderKey
                  /\ \A i \in items : i.orderId \in Ids(orders)
      [] k = 5 -> /\ s.orders /\ ~s.userKey
                  /\ \A o \in orders : o.userId \in Ids(users)
UpLeaves(k, s) ==
    CASE k = 1 -> [s EXCEPT !.items = TRUE]
      [] k = 2 -> [s EXCEPT !.enum = TRUE]
      [] k = 3 -> [s EXCEPT !.orders = TRUE]
      [] k = 4 -> [s EXCEPT !.orderKey = TRUE]
      [] k = 5 -> [s EXCEPT !.userKey = TRUE]

\* ALTER TABLE, statement k on the schema s: the table it alters is locked
\* first, then the constraint is looked up by its name (to drop: it must be
\* there; to add: it must not), and only then the table the key refers to is
\* locked.
DownNamed(k, s) ==
    CASE k = 1 -> s.userKey
      [] k = 2 -> s.orderKey
      [] OTHER -> TRUE
UpNamed(k, s) ==
    CASE k = 4 -> ~s.orderKey
      [] k = 5 -> ~s.userKey
      [] OTHER -> TRUE
Named(op, k, s) == IF op = "down" THEN DownNamed(k, s) ELSE UpNamed(k, s)

\* The statement is refused before it takes the lock st: the table to lock is
\* not there (relation does not exist), or it is the table the key refers
\* to and the look-up of the constraint has failed.
RefusedAtLock(op, st, s) ==
    \/ ~TableThere(s, st.table)
    \/ st.key /\ ~Named(op, st.stmt, s)

Taken(op, k, s) == IF op = "down" THEN DownTaken(k, s) ELSE UpTaken(k, s)
Leaves(op, k, s) == IF op = "down" THEN DownLeaves(k, s) ELSE UpLeaves(k, s)

\* Table locks the open transaction of a request holds.
HeldBy(c) ==
    IF req[c].op = "createUser" /\ req[c].pc = "inserted"
      THEN {TableLock("users", "w")}
    ELSE IF req[c].op = "createOrder" /\ req[c].pc = "order"
      THEN {TableLock("orders", "w")}
           \cup (IF schema.userKey THEN {TableLock("users", "r")} ELSE {})
           \cup (IF req[c].txItems # <<>>
                   THEN {TableLock("orderItem", "w")} ELSE {})
    ELSE {}

\* Table locks of the statement a request in progress runs next.
NextLocks(c) ==
    CASE req[c].op = "createUser" /\ req[c].pc = "tx" -> UserInsertLocks
      [] req[c].op = "createOrder" /\ req[c].pc = "tx" ->
             OrderInsertLocks(OrderRowFits(c))
      [] /\ req[c].op = "createOrder"
         /\ req[c].pc = "order"
         /\ Len(req[c].txItems) < Len(req[c].orderItems) ->
             ItemInsertLocks(TRUE)
      [] req[c].op = "createOrderItem" /\ req[c].pc = "tx" ->
             ItemInsertLocks(NumericFits(req[c].unitPrice))
      [] req[c].op = "deleteUser" /\ req[c].pc = "found" ->
             UserDeleteLocks(req[c].id)
      [] req[c].op = "deleteOrder" /\ req[c].pc = "found" ->
             OrderDeleteLocks(req[c].id)
      [] req[c].op = "deleteOrderItem" /\ req[c].pc = "found" ->
             ItemLocks("w")
      [] OTHER -> <<>>

\* Table locks of the find a request begins with.
Finds == {"user", "deleteUser", "deleteOrder", "deleteOrderItem"}
FindLocks(op) ==
    IF op \in {"user", "deleteUser"} THEN FindOneLocks
    ELSE IF op = "deleteOrder" THEN OrderFindLocks
    ELSE ItemLocks("r")
FindIds(op) ==
    IF op \in {"user", "deleteUser"} THEN KnownUserIds
    ELSE IF op = "deleteOrder" THEN KnownOrderIds
    ELSE KnownItemIds

\* A run of the method begins: by the migration runner of the data source,
\* which wraps it in a transaction (tx), or called without one.
MigrationStart(op, tx) ==
    /\ mig.op = "off"
    /\ mig.runs < MaxMigrations
    /\ mig' = [op |-> op, pc |-> 1, tx |-> tx, locks |-> {},
               schema |-> schema, runs |-> mig.runs + 1]
    /\ UNCHANGED <<store, nextUserId, nextOrderId, nextItemId, req, seed,
                   schema>>

\* The run is over: its locks are released.
MigrationEnds == [NoMigration EXCEPT !.runs = mig.runs]

\* The statement at hand takes its next table lock, after every transaction
\* that holds a conflicting one has ended; or it is refused at once, without
\* the lock and without a wait, and the method throws: what the earlier
\* statements did stays without a transaction around the method and is
\* rolled back with one.
MigrationTakesLock(op) ==
    /\ mig.op = op
    /\ mig.pc <= Len(StepsOf(op))
    /\ StepsOf(op)[mig.pc].kind = "lock"
    /\ LET st == StepsOf(op)[mig.pc]
       IN  IF RefusedAtLock(op, st, mig.schema)
             THEN mig' = MigrationEnds
             ELSE /\ \A c \in Clients : \A h \in HeldBy(c) :
                        ~(h.table = st.table /\ Conflicts(h.mode, st.mode))
                  /\ mig' = [mig EXCEPT !.pc = @ + 1,
                                 !.locks = @ \cup {TableLock(st.table,
                                                             st.mode)}]
    /\ UNCHANGED <<store, nextUserId, nextOrderId, nextItemId, req, seed,
                   schema>>

\* await queryRunner.query(...): the statement changes the schema, or it is
\* refused and the method throws.  Without a transaction around the method
\* the change is committed at once, the rows of a dropped table go with it,
\* and what the earlier statements did stays when a later one is refused; in
\* a transaction the change is the transaction's own until the commit, and
\* a refusal rolls all of it back.
MigrationRunsQuery(op) ==
    /\ mig.op = op
    /\ mig.pc <= Len(StepsOf(op))
    /\ StepsOf(op)[mig.pc].kind = "query"
    /\ LET k == StepsOf(op)[mig.pc].stmt
           s == Leaves(op, k, mig.schema)
       IN  IF ~Taken(op, k, mig.schema)
             THEN /\ mig' = MigrationEnds
                  /\ UNCHANGED <<schema, orders, items>>
             ELSE IF mig.tx
             THEN /\ mig' = [mig EXCEPT !.pc = @ + 1, !.schema = s]
                  /\ UNCHANGED <<schema, orders, items>>
             ELSE /\ mig' = IF mig.pc = Len(StepsOf(op))
                              THEN MigrationEnds
                              ELSE [mig EXCEPT !.pc = @ + 1, !.schema = s,
                                               !.locks = {}]
                  /\ schema' = s
                  /\ orders' = IF s.orders THEN orders ELSE {}
                  /\ items' = IF s.items THEN items ELSE {}
    /\ UNCHANGED <<users, nextUserId, nextOrderId, nextItemId, req, seed>>

\* Migration1759570629698.down (Migration.ts 14-20), statement by statement.
MigrationDown == MigrationTakesLock("down") \/ MigrationRunsQuery("down")

\* Migration1759570629698.up (Migration.ts 6-12), statement by statement.
MigrationUp == MigrationTakesLock("up") \/ MigrationRunsQuery("up")

\* The method has returned and the transaction around it is committed: the
\* schema it made is the schema, and the rows of a dropped table are gone.
MigrationCommit ==
    /\ mig.op # "off"
    /\ mig.tx
    /\ mig.pc = Len(StepsOf(mig.op)) + 1
    /\ schema' = mig.schema
    /\ orders' = IF mig.schema.orders /\ schema.orders THEN orders ELSE {}
    /\ items' = IF mig.schema.items /\ schema.items THEN items ELSE {}
    /\ mig' = MigrationEnds
    /\ UNCHANGED <<users, nextUserId, nextOrderId, nextItemId, req, seed>>

\* A statement of a request holds table locks (held: of its transaction, and
\* the first ones of ls, the statement's own) and waits for one the migration
\* has, while the migration waits for one of those: the store ends one of
\* the two.
Deadlocked(held, ls) ==
    /\ mig.op # "off"
    /\ mig.pc <= Len(StepsOf(mig.op))
    /\ LET st == StepsOf(mig.op)[mig.pc]
       IN  /\ st.kind = "lock"
           /\ ~RefusedAtLock(mig.op, st, mig.schema)
           /\ \E j \in 1..Len(ls) :
                /\ LockedOut(ls[j])
                /\ \A i \in 1..(j - 1) : ~LockedOut(ls[i])
                /\ \E h \in held \cup {ls[i] : i \in 1..(j - 1)} :
                       h.table = st.table /\ Conflicts(h.mode, st.mode)

\* The store ends the statement of the request: deadlock detected.
DeadlockAbortsRequest(c) ==
    /\ req[c].pc # "idle"
    /\ Deadlocked(HeldBy(c), NextLocks(c))
    /\ Fail(c, "DeadlockError")
    /\ UNCHANGED <<store, nextUserId, nextOrderId, nextItemId, seed, schema,
                   mig>>

\* The same for the find a request begins with.
DeadlockAbortsFind(c, op, id) ==
    /\ req[c].pc = "idle"
    /\ Deadlocked({}, FindLocks(op))
    /\ req' = [req EXCEPT ![c] = [Idle EXCEPT !.op = op, !.id = id,
                                   !.pc = "failed", !.err = "DeadlockError"]]
    /\ UNCHANGED <<store, nextUserId, nextOrderId, nextItemId, seed, schema,
                   mig>>

\* The store ends the statement of the migration, and the method throws; the
\* request goes on.
DeadlockAbortsMigration ==
    /\ \E c \in Clients :
         \/ req[c].pc # "idle" /\ Deadlocked(HeldBy(c), NextLocks(c))
         \/ /\ req[c].pc = "idle"
            /\ \E op \in Finds : Deadlocked({}, FindLocks(op))
    /\ mig' = MigrationEnds
    /\ UNCHANGED <<store, nextUserId, nextOrderId, nextItemId, req, seed,
                   schema>>

\* Requests served one at a time while the migration is reverted and run.
MigrationNext ==
    \/ Step(SeqClient, Narrow)
    \/ \E op \in {"up", "down"}, tx \in BOOLEAN : MigrationStart(op, tx)
    \/ MigrationDown
    \/ MigrationUp
    \/ MigrationCommit
    \/ DeadlockAbortsRequest(SeqClient)
    \/ \E op \in Finds : \E id \in FindIds(op) :
           DeadlockAbortsFind(SeqClient, op, id)
    \/ DeadlockAbortsMigration

MigrationSpec == Init /\ [][MigrationNext]_vars

\* Under the migration: a table that is not there holds no row, a foreign
\* key that is there has its two tables and no row that breaks it, the
\* migration leaves the users as they are, and it holds no lock when no run
\* is in progress.
SchemaKept ==
    /\ [](~schema.orders => orders = {})
    /\ [](~schema.items => items = {})
    /\ [](schema.userKey =>
            schema.orders /\ \A o \in orders : o.userId \in Ids(users))
    /\ [](schema.orderKey =>
            /\ schema.orders
            /\ schema.items
            /\ \A i \in items : i.orderId \in Ids(orders))
    /\ [](mig.op = "off" => mig.locks = {})
    /\ [][mig' # mig => users' = users]_vars

\* A statement on a table that is not there is refused in the step it is
\* reached, with no lock taken for it.
RefusedAtOnce ==
    [][(/\ mig.op # "off"
        /\ mig.pc <= Len(StepsOf(mig.op))
        /\ StepsOf(mig.op)[mig.pc].kind = "lock"
        /\ ~TableThere(mig.schema, StepsOf(mig.op)[mig.pc].table)
        /\ mig' # mig)
       => /\ mig'.op = "off"
          /\ mig'.locks = {}
          /\ schema' = schema]_vars

\* down() without a transaction has dropped orders, "orderItem" still holds
\* a row, and a deleteOrderItem is served.
DroppedOrdersKeptItems ==
    \E c \in Clients :
        /\ mig.op = "down"
        /\ ~mig.tx
        /\ ~schema.orders
        /\ items # {}
        /\ req[c].op = "deleteOrderItem"
        /\ req[c].pc = "done"

\* up() without a transaction was refused at its last statement: an order
\* for a user that is not stored came in before the foreign key.
OrderBeforeItsKey ==
    /\ mig.op = "off"
    /\ schema.orders
    /\ ~schema.userKey
    /\ \E o \in orders : o.userId \notin Ids(users)

\* A deleteUser was ended on a deadlock with the migration: the user is kept.
DeleteUserDeadlocked ==
    \E c \in Clients :
        /\ req[c].op = "deleteUser"
        /\ req[c].pc = "failed"
        /\ req[c].err = "DeadlockError"
        /\ users # {}

\* down() in a transaction was committed under a request that had found an
\* order: the order is gone and the request is refused.
RevertedUnderDelete ==
    \E c \in Clients :
        /\ schema = [orders |-> FALSE, items |-> FALSE, enum |-> FALSE,
                     userKey |-> FALSE, orderKey |-> FALSE]
        /\ users # {}
        /\ req[c].op = "deleteOrder"
        /\ req[c].pc = "failed"
        /\ req[c].err = "QueryFailedError"

\* -------------------------------------------------------- the seed script
\* What faker gives the script: emails, and for an order a status (two of
\* the four of arrayElement) and a total; an item has one quantity and price.
FakerEmails == ValidEmails \cup {"c@x.io"}
FakerStatuses == {"pending", "shipped"}
FakerTotal == Dec(10, 0)
FakerItem == Item(1, Dec(1, 0))

\* Rows the store may hold when the script starts.
OldUsers == {[id |-> k, name |-> NameOfLen(2),
              email |-> IF k = 1 THEN "a@x.io" ELSE "b@x.io",
              createdAt |-> Timestamps(1).createdAt,
              updatedAt |-> Timestamps(1).updatedAt] : k \in 1..2}
OldOrders == {[id |-> k, userId |-> k, status |-> "paid",
               totalCost |-> NumericRound(FakerTotal)] : k \in 1..2}
OldItems == {[id |-> k, orderId |-> k, quantity |-> FakerItem.quantity,
              unitPrice |-> NumericRound(FakerItem.unitPrice)] : k \in 1..2}

\* The script starts on any store the API can have left.
SeedInit ==
    /\ users \in SUBSET OldUsers
    /\ orders \in SUBSET {o \in OldOrders : o.userId \in Ids(users)}
    /\ items \in SUBSET {i \in OldItems : i.orderId \in Ids(orders)}
    /\ nextUserId = 3
    /\ nextOrderId = 3
    /\ nextItemId = 3
    /\ req = [c \in Clients |-> Idle]
    /\ seed = [NoSeed EXCEPT !.pc = "clearItems"]
    /\ schema = SchemaUp
    /\ mig = NoMigration

\* DELETE FROM "orderItem"
SeedClearItems ==
    /\ seed.pc = "clearItems"
    /\ items' = {}
    /\ seed' = [seed EXCEPT !.pc = "clearOrders"]
    /\ UNCHANGED <<users, orders, nextUserId, nextOrderId, nextItemId,
                 req, schema, mig>>

\* DELETE FROM "orders", with its ON DELETE CASCADE key.
SeedClearOrders ==
    /\ seed.pc = "clearOrders"
    /\ orders' = {}
    /\ items' = {i \in items : i.orderId \notin Ids(orders)}
    /\ seed' = [seed EXCEPT !.pc = "clearUsers"]
    /\ UNCHANGED <<users, nextUserId, nextOrderId, nextItemId,
                 req, schema, mig>>

\* DELETE FROM "users", with both ON DELETE CASCADE keys.
SeedClearUsers ==
    /\ seed.pc = "clearUsers"
    /\ users' = {}
    /\ orders' = {o \in orders : o.userId \notin Ids(users)}
    /\ items' = {i \in items :
                   \A o \in orders : o.id = i.orderId
                                      => o.userId \notin Ids(users)}
    /\ seed' = [seed EXCEPT !.pc = "users"]
    /\ UNCHANGED <<nextUserId, nextOrderId, nextItemId, req, schema, mig>>

\* Mutant: the set of used emails is not looked at.
EmailNeverUsed(email, usedEmails) == FALSE

\* usedEmails.has(email)
EmailUsed(email, usedEmails) == email \in usedEmails

\* One turn of the do-while loop: faker gives an email; a used one is drawn
\* again, a new one is added to usedEmails and a user with a fresh id is
\* pushed.  After numUsers users the array is ready for its insert.
SeedDrawEmail(email) ==
    /\ seed.pc = "users"
    /\ IF EmailUsed(email, seed.usedEmails)
         THEN UNCHANGED <<seed, nextUserId>>
         ELSE /\ seed' = [seed EXCEPT
                     !.users = Append(@, [id |-> nextUserId,
                                         name |-> NameOfLen(2),
                                         email |-> email]),
                     !.usedEmails = @ \cup {email},
                     !.pc = IF Len(seed.users) + 1 = numUsers
                              THEN "insertUsers" ELSE @]
              /\ nextUserId' = nextUserId + 1
    /\ UNCHANGED <<store, nextOrderId, nextItemId, req, schema, mig>>

\* insertInBatches: data.slice(i, i + batchSize), the rows of the next insert.
Batch(data) ==
    LET last == IF seed.inserted + batchSize < Len(data)
                  THEN seed.inserted + batchSize ELSE Len(data)
    IN  SubSeq(data, seed.inserted + 1, last)

\* insertInBatches: the loop goes on to the next batch, or the script goes
\* on to what follows the call.
AfterBatch(data, then) ==
    LET n == seed.inserted + Len(Batch(data))
    IN  IF n < Len(data) THEN [seed EXCEPT !.inserted = n]
        ELSE [seed EXCEPT !.inserted = 0, !.pc = then]

\* The script throws: seed().catch logs the error and the process exits.
SeedFails == seed' = [seed EXCEPT !.pc = "failed"]

\* userRepo.insert(batch): one INSERT of the batch, under the unique index
\* on users.email; now is what the store's clock reads.
SeedInsertUsers(now) ==
    /\ seed.pc = "insertUsers"
    /\ LET b == Batch(seed.users)
       IN  IF \/ \E k \in 1..Len(b) : EmailTaken(b[k].email)
              \/ \E j, k \in 1..Len(b) : j # k /\ b[j].email = b[k].email
             THEN SeedFails /\ UNCHANGED users
             ELSE /\ users' = users \cup
                       {[id |-> b[k].id, name |-> b[k].name,
                         email |-> b[k].email,
                         createdAt |-> Timestamps(now).createdAt,
                         updatedAt |-> Timestamps(now).updatedAt]
                          : k \in 1..Len(b)}
                  /\ seed' = AfterBatch(seed.users, "orders")
    /\ UNCHANGED <<orders, items, nextUserId, nextOrderId, nextItemId,
                 req, schema, mig>>

\* One turn of the loops over users and 0..numOrdersPerUser-1: an order of
\* the user at hand is pushed, with a fresh id and faker's status and total.
SeedPushOrder(status) ==
    /\ seed.pc = "orders"
    /\ LET user == seed.users[(Len(seed.orders) \div numOrdersPerUser) + 1]
       IN  seed' = [seed EXCEPT
               !.orders = Append(@, [id |-> nextOrderId, userId |-> user.id,
                                     status |-> status,
                                     totalCost |-> FakerTotal]),
               !.pc = IF Len(seed.orders) + 1 = Len(seed.users)
                                                 * numOrdersPerUser
                        THEN "insertOrders" ELSE @]
    /\ nextOrderId' = nextOrderId + 1
    /\ UNCHANGED <<store, nextUserId, nextItemId, req, schema, mig>>

\* orderRepo.insert(batch): one INSERT of the batch, under the columns'
\* types and the foreign key to users.
SeedInsertOrders ==
    /\ seed.pc = "insertOrders"
    /\ LET b == Batch(seed.orders)
       IN  IF \E k \in 1..Len(b) : \/ ~StatusFits(b[k].status)
                                    \/ ~NumericFits(b[k].totalCost)
                                    \/ ~UserKeyExists(b[k].userId)
             THEN SeedFails /\ UNCHANGED orders
             ELSE /\ orders' = orders \cup
                       {[id |-> b[k].id, userId |-> b[k].userId,
                         status |-> b[k].status,
                         totalCost |-> NumericRound(b[k].totalCost)]
                          : k \in 1..Len(b)}
                  /\ seed' = AfterBatch(seed.orders, "items")
    /\ UNCHANGED <<users, items, nextUserId, nextOrderId, nextItemId,
                 req, schema, mig>>

\* One turn of the loops over orders and 0..numItemsPerOrder-1: an item of
\* the order at hand is pushed, with a fresh id.
SeedPushItem ==
    /\ seed.pc = "items"
    /\ LET order == seed.orders[(Len(seed.items) \div numItemsPerOrder) + 1]
       IN  seed' = [seed EXCEPT
               !.items = Append(@, [id |-> nextItemId, orderId |-> order.id,
                                    quantity |-> FakerItem.quantity,
                                    unitPrice |-> FakerItem.unitPrice]),
               !.pc = IF Len(seed.items) + 1 = Len(seed.orders)
                                                * numItemsPerOrder
                        THEN "insertItems" ELSE @]
    /\ nextItemId' = nextItemId + 1
    /\ UNCHANGED <<store, nextUserId, nextOrderId, req, schema, mig>>

\* itemRepo.insert(batch): one INSERT of the batch, under the column's type
\* and the foreign key to orders; after the last one the script is done.
SeedInsertItems ==
    /\ seed.pc = "insertItems"
    /\ LET b == Batch(seed.items)
       IN  IF \E k \in 1..Len(b) : \/ ~NumericFits(b[k].unitPrice)
                                    \/ ~OrderKeyExists(b[k].orderId)
             THEN SeedFails /\ UNCHANGED items
             ELSE /\ items' = items \cup
                       {[id |-> b[k].id, orderId |-> b[k].orderId,
                         quantity |-> b[k].quantity,
                         unitPrice |-> NumericRound(b[k].unitPrice)]
                          : k \in 1..Len(b)}
                  /\ seed' = AfterBatch(seed.items, "done")
    /\ UNCHANGED <<users, orders, nextUserId, nextOrderId, nextItemId,
                 req, schema, mig>>

\* The script run on its own, no request being served.
SeedNext ==
    \/ SeedClearItems
    \/ SeedClearOrders
    \/ SeedClearUsers
    \/ \E email \in FakerEmails : SeedDrawEmail(email)
    \/ \E now \in Narrow.times : SeedInsertUsers(now)
    \/ \E status \in FakerStatuses : SeedPushOrder(status)
    \/ SeedInsertOrders
    \/ SeedPushItem
    \/ SeedInsertItems

\* The script goes on until it is done; faker gives a new email in the end.
SeedSpec == SeedInit /\ [][SeedNext]_vars /\ WF_vars(SeedNext)

\* ================================================================ claims

\* C1: in every reachable state, under any interleaving of the six
\* mutations, every stored order item references a stored order and every
\* stored order references a stored user.
NoOrphans ==
    /\ \A i \in items : i.orderId \in Ids(orders)
    /\ \A o \in orders : o.userId \in Ids(users)

\* A cascade has removed an order with its items while other items stay.
NoOrphansWitness ==
    \E c \in Clients :
        /\ req[c].op = "deleteUser"
        /\ req[c].pc = "done"
        /\ req[c].found.items # {}
        /\ req[c].found.users \cap users = {}
        /\ items # {}

\* C2: the remove step of a successful deleteUser takes away, in that one
\* step, the user, every order of the user and every item of those orders,
\* and nothing else.
DeleteUserCascades ==
    [][\A c \in Clients :
         (req[c].op = "deleteUser" /\ req[c].pc = "found"
            /\ req'[c].pc = "done")
         => LET id == req[c].id
                os == OrdersOfUser(id, orders)
                is == ItemsOfOrders(os, items)
            IN  /\ id \notin Ids(users')
                /\ users' = {u \in users : u.id # id}
                /\ OrdersOfUser(id, orders') = {}
                /\ orders' = orders \ os
                /\ is \cap items' = {}
                /\ items' = items \ is]_vars

\* A user with two orders of one item each has been deleted.
DeleteUserCascadesWitness ==
    \E c \in Clients :
        /\ req[c].op = "deleteUser"
        /\ req[c].pc = "done"
        /\ Cardinality(req[c].found.orders) = 2
        /\ \A o \in req[c].found.orders :
               Cardinality(ItemsOfOrders({o}, req[c].found.items)) = 1
        /\ req[c].found.users \cap users = {}
        /\ req[c].found.orders \cap orders = {}
        /\ req[c].found.items \cap items = {}

\* C3 (requests served one at a time): the remove step of a successful
\* deleteOrder on an order with N items removes the order and its N items,
\* orderItems findAll then has no item of that order, and the returned value
\* holds the order with exactly those N items.
DeleteOrderRemovesItems ==
    [][\A c \in Clients :
         (req[c].op = "deleteOrder" /\ req[c].pc = "found"
            /\ req'[c].pc = "done")
         => LET id == req[c].id
                is == {i \in items : i.orderId = id}
            IN  /\ id \in Ids(orders)
                /\ id \notin Ids(orders')
                /\ {i \in OrderItemsFindAll' : i.orderId = id} = {}
                /\ Ids(req'[c].found.orders) = {id}
                /\ req'[c].found.items = is
                /\ Cardinality(req'[c].found.items) = Cardinality(is)]_vars

\* An order with two items has been deleted.
DeleteOrderRemovesItemsWitness ==
    \E c \in Clients :
        /\ req[c].op = "deleteOrder"
        /\ req[c].pc = "done"
        /\ Cardinality(req[c].found.items) = 2
        /\ req[c].found.orders \cap orders = {}
        /\ req[c].found.items \cap OrderItemsFindAll = {}

\* The rows a createOrder in progress has written so far.
InProgress(c) == req[c].op = "createOrder" /\ req[c].pc \in {"tx", "order"}

SeenByReaders(c) ==
    \/ \E o \in OrdersFindAll : o.order.id \in Ids(req[c].txOrders)
    \/ \E i \in OrderItemsFindAll :
           \/ i.orderId \in Ids(req[c].txOrders)
           \/ i.id \in Ids(Range(req[c].txItems))
    \/ \E u \in Ids(users) :
           \/ Ids(FindOne(u).orders) \cap Ids(req[c].txOrders) # {}
           \/ Ids(FindOne(u).items) \cap Ids(Range(req[c].txItems)) # {}

\* C4: while a createOrder is in progress no reader (orders findAll,
\* orderItems findAll, user findOne) sees its order or any of its items, and
\* in the step that makes the order visible all n items are visible with it.
CreateOrderAtomic ==
    /\ [](\A c \in Clients : InProgress(c) => ~SeenByReaders(c))
    /\ [][\A c \in Clients :
            (InProgress(c) /\ req'[c].pc = "done")
            => \A o \in req[c].txOrders :
                 /\ \E r \in OrdersFindAll' :
                      /\ r.order = o
                      /\ Cardinality(r.orderItem) = Len(req[c].orderItems)
                 /\ Cardinality({i \in OrderItemsFindAll' :
                                    i.orderId = o.id})
                       = Len(req[c].orderItems)
                 /\ Cardinality(ItemsOfOrders({o}, FindOne(o.userId)'.items))
                       = Len(req[c].orderItems)]_vars

\* A createOrder with two items has written its order row and one item row.
CreateOrderAtomicWitness ==
    \E c \in Clients :
        /\ InProgress(c)
        /\ Len(req[c].orderItems) = 2
        /\ Cardinality(req[c].txOrders) = 1
        /\ Len(req[c].txItems) = 1

\* C5: the step in which a createOrder fails leaves the stored users, orders
\* and items as they were, and none of the rows its transaction had written
\* (none, the order row, or the order row and some items) is stored.
CreateOrderFailureLeavesNothing ==
    [][\A c \in Clients :
         (req[c].op = "createOrder" /\ req[c].pc \in {"tx", "order"}
            /\ req'[c].pc = "failed")
         => /\ users' = users
            /\ orders' = orders
            /\ items' = items
            /\ Ids(req[c].txOrders) \cap Ids(orders') = {}
            /\ Ids(Range(req[c].txItems)) \cap Ids(items') = {}
            /\ \A i \in items' : i.orderId \notin Ids(req[c].txOrders)]_vars

\* A createOrder failed after its order row and one of its two item rows.
CreateOrderFailureLeavesNothingWitness ==
    \E c \in Clients :
        /\ req[c].op = "createOrder"
        /\ req[c].pc = "failed"
        /\ req[c].err = "DataError"
        /\ req[c].written = 2
        /\ users # {}
        /\ orders = {}
        /\ items = {}

\* The step in which a createOrder with a non-empty item list writes its
\* order row while no stored user has its userId.
WritesForUnknownUser(c) ==
    /\ req[c].op = "createOrder"
    /\ req[c].pc = "tx"
    /\ Len(req[c].orderItems) >= 1
    /\ req[c].id \notin Ids(users)
    /\ req'[c] # req[c]

\* The request fails and no order and no item row is created: the findAll
\* counts stay.
FailsAndStoresNothing(c) ==
    /\ req'[c].pc = "failed"
    /\ Cardinality(OrdersFindAll') = Cardinality(OrdersFindAll)
    /\ Cardinality(OrderItemsFindAll') = Cardinality(OrderItemsFindAll)
    /\ orders' = orders
    /\ items' = items

\* C6 as stated: a createOrder whose userId references no stored user, with
\* a non-empty item list, fails with the ForeignKeyError and creates no
\* order and no item row.
CreateOrderUnknownUserForeignKey ==
    [][\A c \in Clients :
         WritesForUnknownUser(c)
         => /\ FailsAndStoresNothing(c)
            /\ req'[c].err = "ForeignKeyError"]_vars

\* C6, amended: such a createOrder always fails and creates no order and no
\* item row; the failure is the ForeignKeyError when the status is one of
\* the enum and the totalCost is in the range of numeric(10,2), and a data
\* error of the store otherwise.
CreateOrderUnknownUserFails ==
    [][\A c \in Clients :
         WritesForUnknownUser(c)
         => /\ FailsAndStoresNothing(c)
            /\ req'[c].err =
                 IF /\ req[c].status
                         \in {"pending", "paid", "shipped", "cancelled"}
                    /\ NumericFits(req[c].totalCost)
                   THEN "ForeignKeyError"
                   ELSE "DataError"]_vars

\* A createOrder for a user that is not stored, with a status of the enum,
\* a totalCost in range and an item, has failed on the foreign key while
\* orders are stored.
CreateOrderUnknownUserFailsWitness ==
    \E c \in Clients :
        /\ req[c].op = "createOrder"
        /\ req[c].pc = "failed"
        /\ req[c].err = "ForeignKeyError"
        /\ req[c].written = 0
        /\ orders # {}

\* C7: a createOrder called with an empty items list fails with
\* ValidationError, whatever its userId, status and totalCost, and stores no
\* order.
EmptyItemsRejected ==
    [][\A c \in Clients :
         (req[c].pc = "idle" /\ req'[c].op = "createOrder"
            /\ req'[c].orderItems = <<>>)
         => /\ req'[c].pc = "failed"
            /\ req'[c].err = "ValidationError"
            /\ orders' = orders
            /\ items' = items]_vars
    /\ [](\A c \in Clients :
            (req[c].op = "createOrder" /\ req[c].orderItems = <<>>)
            => req[c].pc \in {"failed", "done"})

\* An empty list was rejected for a stored user, a status of the enum and a
\* totalCost in range.
EmptyItemsRejectedWitness ==
    \E c \in Clients :
        /\ req[c].op = "createOrder"
        /\ req[c].pc = "failed"
        /\ req[c].err = "ValidationError"
        /\ req[c].orderItems = <<>>
        /\ req[c].id \in Ids(users)
        /\ StatusFits(req[c].status)
        /\ NumericFits(req[c].totalCost)

\* The commit step of a createOrder: the rows it adds.
Commits(c) ==
    req[c].op = "createOrder" /\ req[c].pc = "order" /\ req'[c].pc = "done"

\* Distance, in thousandths, from a given decimal to a stored value.
Off(n, d) == (n.whole - d.whole) * 1000 + n.cents * 10 - d.milli

\* The stored value n is the given decimal d (exact), or the value of two
\* fractional digits nearest to it, the tie going up.
SameCost(n, d, exact) ==
    IF exact THEN AsDec(n) = d ELSE Off(n, d) \in -4..5

CreateOrderAdds(c, exact) ==
    LET n == Len(req[c].orderItems)
        newOrders == orders' \ orders
        newItems == items' \ items
    IN  /\ n >= 1
        /\ req[c].id \in Ids(users)
        /\ StatusFits(req[c].status)
        /\ users' = users
        /\ orders \subseteq orders'
        /\ items \subseteq items'
        /\ Cardinality(newOrders) = 1
        /\ Cardinality(newItems) = n
        /\ \A o \in newOrders :
             /\ o.id \notin Ids(orders)
             /\ o.userId = req[c].id
             /\ o.status = req[c].status
             /\ SameCost(o.totalCost, req[c].totalCost, exact)
             /\ \E f \in [1..n -> newItems] :
                  /\ \A j, k \in 1..n : f[j] = f[k] => j = k
                  /\ \A k \in 1..n :
                       /\ f[k].orderId = o.id
                       /\ f[k].quantity = req[c].orderItems[k].quantity
                       /\ SameCost(f[k].unitPrice,
                                   req[c].orderItems[k].unitPrice, exact)


\* C8 as stated (requests served one at a time): a createOrder that succeeds
\* adds one order with the given userId, status and totalCost and n items
\* with the given quantities and unit prices, and changes nothing else.
CreateOrderStoresGiven ==
    [][\A c \in Clients : Commits(c) => CreateOrderAdds(c, TRUE)]_vars

\* C8, amended: the stored totalCost and unit prices are the given ones
\* rounded to two fractional digits.
CreateOrderStoresRounded ==
    [][\A c \in Clients : Commits(c) => CreateOrderAdds(c, FALSE)]_vars

\* An order with two different items, one of them with a price of three
\* fractional digits that the response repeats as given and the stored row
\* holds rounded, was added next to an older order.
CreateOrderStoresRoundedWitness ==
    \E c \in Clients :
        /\ req[c].op = "createOrder"
        /\ req[c].pc = "done"
        /\ Ids(req[c].found.orders) \subseteq Ids(orders)
        /\ Ids(req[c].found.items) \subseteq Ids(items)
        /\ Cardinality(req[c].found.items) = 2
        /\ \E i, j \in req[c].found.items :
               /\ i.quantity # j.quantity
               /\ i.unitPrice # j.unitPrice
               /\ i.unitPrice.milli % 10 # 0
               /\ \E r \in items :
                      r.id = i.id /\ AsDec(r.unitPrice) # i.unitPrice
        /\ Cardinality(orders) = 2

\* C9: a createUser whose email a stored user holds when the row is written
\* fails with ConflictError, stores no user and leaves the stored users as
\* they were.
DuplicateEmailConflicts ==
    [][\A c \in Clients :
         (req[c].op = "createUser" /\ req[c].pc = "tx"
            /\ (\E u \in users : u.email = req[c].email)
            /\ req'[c] # req[c])
         => /\ req'[c].pc = "failed"
            /\ req'[c].err = "ConflictError"
            /\ users' = users]_vars

\* A createUser has failed on the email of a stored user.
DuplicateEmailConflictsWitness ==
    \E c \in Clients :
        /\ req[c].op = "createUser"
        /\ req[c].pc = "failed"
        /\ req[c].err = "ConflictError"
        /\ users # {}

\* C10: no two user rows, stored or written by a createUser in progress,
\* have the same email: of concurrent createUser calls with one email at
\* most one gets its row in.
UserRows == users \cup UNION {req[c].txUsers : c \in Clients}
EmailUnique ==
    \A u, v \in UserRows : u.email = v.email => u = v

\* Two createUser calls with the same email are in progress, one of them
\* with its row written.
EmailUniqueWitness ==
    \E c, d \in Clients :
        /\ c # d
        /\ req[c].op = "createUser" /\ req[c].pc = "inserted"
        /\ req[d].op = "createUser" /\ req[d].pc = "tx"
        /\ req[d].email = req[c].email

\* The delete operations, and the rows each looks its id up in.
DeleteOps == {"deleteUser", "deleteOrder", "deleteOrderItem"}
TableOf(op) ==
    IF op = "deleteUser" THEN users
    ELSE IF op = "deleteOrder" THEN orders ELSE items

\* C11 (requests served one at a time): a deleteUser, deleteOrder or
\* deleteOrderItem called with an id that is not stored, whether it never
\* was or was removed before, fails with NotFoundError and leaves users,
\* orders and items as they were; and no delete returns a success for a row
\* that was not stored when it removed it.
DeleteOfMissingFails ==
    [][\A c \in Clients :
         /\ (req[c].pc = "idle" /\ req'[c].op \in DeleteOps
               /\ req'[c].id \notin Ids(TableOf(req'[c].op)))
            => /\ req'[c].pc = "failed"
               /\ req'[c].err = "NotFoundError"
               /\ store' = store
         /\ (req[c].op \in DeleteOps /\ req'[c].pc = "done")
            => req[c].id \in Ids(TableOf(req[c].op))]_vars

\* A deleteUser has failed on the id of a user that was stored and removed.
DeleteOfMissingFailsWitness ==
    \E c \in Clients :
        /\ req[c].op = "deleteUser"
        /\ req[c].pc = "failed"
        /\ req[c].err = "NotFoundError"
        /\ req[c].id \in 1..(nextUserId - 1)
        /\ req[c].id \notin Ids(users)

\* The entity a delete of id removes, read with its nested rows from the
\* stored state: a user with its orders and their items, an order with its
\* items.
StoredGraph(op, id) ==
    LET us == IF op = "deleteUser" THEN {u \in users : u.id = id} ELSE {}
        os == IF op = "deleteUser" THEN {o \in orders : o.userId = id}
                                   ELSE {o \in orders : o.id = id}
    IN  [users |-> us, orders |-> os,
         items |-> {i \in items : \E o \in os : i.orderId = o.id}]

\* C12: the value a successful deleteUser or deleteOrder returns is the
\* entity with its nested orders and items as stored immediately before the
\* removal step, whatever other requests ran between the delete's read and
\* its removal: every order and item the removal takes away is in the
\* returned value, and nothing is in it that was not stored at the removal.
DeleteReturnsStoredAtRemoval ==
    [][\A c \in Clients :
         (req[c].op \in {"deleteUser", "deleteOrder"}
            /\ req[c].pc = "found" /\ req'[c].pc = "done")
         => LET ret == req'[c].found
            IN  /\ ret = StoredGraph(req[c].op, req[c].id)
                /\ (orders \ orders') \subseteq ret.orders
                /\ (items \ items') \subseteq ret.items
                /\ ret.users \subseteq users
                /\ ret.orders \subseteq orders
                /\ ret.items \subseteq items]_vars

\* C13: two callers that delete the same stored id concurrently can both
\* pass the existence check before either removes the row, and then both
\* return a success: the remove step of a delete that has found its row
\* always returns the copy it made, never NotFoundError, whether or not the
\* row is still stored.  (DoubleDeleteWitness is the state the race ends in.)
DoubleDeleteUnguarded ==
    [][\A c \in Clients :
         (req[c].op \in DeleteOps /\ req[c].pc = "found"
            /\ req'[c] # req[c])
         => /\ req'[c].pc = "done"
            /\ req'[c].err = ""
            /\ req'[c].found = req[c].found
            /\ req'[c].found # NoGraph]_vars

\* Both callers have returned the same user as deleted.
DoubleDeleteWitness ==
    \E c, d \in Clients :
        /\ c # d
        /\ req[c].op = "deleteUser" /\ req[c].pc = "done"
        /\ req[d].op = "deleteUser" /\ req[d].pc = "done"
        /\ req[c].found.users # {}
        /\ req[c].found.users = req[d].found.users

\* The step in which a createOrderItem writes its row.
SavesItem(c) ==
    req[c].op = "createOrderItem" /\ req[c].pc = "tx" /\ req'[c] # req[c]

\* What a createOrderItem does: refused with one of the errors refusal and
\* nothing stored when its orderId is not stored; otherwise one item added
\* that references the order, with the given quantity and unit price (exact)
\* or, if the price fits the column, with the price rounded to two
\* fractional digits, and refused with nothing stored if it does not fit.
CreateOrderItemOutcome(c, refusal, exact) ==
    LET new == items' \ items
        refused == /\ req'[c].pc = "failed"
                   /\ req'[c].err \in refusal
                   /\ store' = store
        added == /\ req'[c].pc = "done"
                 /\ users' = users
                 /\ orders' = orders
                 /\ items \subseteq items'
                 /\ Cardinality(new) = 1
                 /\ Cardinality(req'[c].found.items) = 1
                 /\ \A r \in req'[c].found.items : \E i \in new :
                      /\ r.id = i.id
                      /\ r.orderId = i.orderId
                      /\ r.quantity = i.quantity
                      /\ r.unitPrice = req[c].unitPrice
                 /\ \A i \in new :
                      /\ i.id \notin Ids(items)
                      /\ i.orderId = req[c].id
                      /\ i.quantity = req[c].quantity
                      /\ SameCost(i.unitPrice, req[c].unitPrice, exact)
    IN  IF req[c].id \notin Ids(orders) THEN refused
        ELSE IF exact \/ NumericFits(req[c].unitPrice) THEN added
        ELSE /\ req'[c].pc = "failed"
             /\ req'[c].err = "DataError"
             /\ store' = store

\* C14 as stated (requests served one at a time): a createOrderItem whose
\* orderId references no stored order fails with ValidationError and stores
\* no item; with the orderId of a stored order it adds exactly one item that
\* references the order, with the given quantity and unitPrice.
CreateOrderItemAsStated ==
    [][\A c \in Clients :
         SavesItem(c)
         => CreateOrderItemOutcome(c, {"ValidationError"}, TRUE)]_vars

\* C14, amended: the failure on an orderId that is not stored is the
\* store's foreign-key error (a data error if the unit price does not fit
\* numeric(10,2)); the item added for a stored order has the given unit
\* price rounded to two fractional digits, and a price that does not fit
\* the column is refused with nothing stored.
CreateOrderItemChecksKey ==
    [][\A c \in Clients :
         SavesItem(c)
         => /\ CreateOrderItemOutcome(c, {"ForeignKeyError", "DataError"},
                                      FALSE)
            /\ (req'[c].err = "ForeignKeyError"
                  <=> (req[c].id \notin Ids(orders)
                       /\ NumericFits(req[c].unitPrice)))]_vars

\* A createOrderItem has been refused for its orderId while an order is
\* stored.
CreateOrderItemChecksKeyWitness ==
    \E c \in Clients :
        /\ req[c].op = "createOrderItem"
        /\ req[c].pc = "failed"
        /\ req[c].err = "ForeignKeyError"
        /\ orders # {}
        /\ items # {}

\* The step in which a createOrder writes its order row.
SavesOrder(c) ==
    req[c].op = "createOrder" /\ req[c].pc = "tx" /\ req'[c] # req[c]

\* C15 (requests served one at a time): the status of every stored order is
\* one of pending, paid, shipped, cancelled; a createOrder with any of the
\* four, a stored user and a totalCost in range has its order row written
\* with that status; and a createOrder whose status is not one of the four
\* stores no order.
StatusOfTheEnum ==
    /\ [](\A o \in orders :
            o.status \in {"pending", "paid", "shipped", "cancelled"})
    /\ [](\A c \in Clients :
            (req[c].op = "createOrder" /\ req[c].pc = "order")
            => req[c].status \in {"pending", "paid", "shipped", "cancelled"})
    /\ [][\A c \in Clients :
           SavesOrder(c)
           => IF req[c].status \in {"pending", "paid", "shipped", "cancelled"}
                THEN (req[c].id \in Ids(users)
                        /\ NumericFits(req[c].totalCost))
                     => /\ req'[c].pc = "order"
                        /\ \A o \in req'[c].txOrders :
                               o.status = req[c].status
                ELSE /\ req'[c].pc = "failed"
                     /\ store' = store]_vars

\* An order with the status shipped is stored, and a createOrder has been
\* refused by the store.
StatusOfTheEnumWitness ==
    \E c \in Clients :
        /\ req[c].op = "createOrder"
        /\ req[c].pc = "failed"
        /\ req[c].err = "DataError"
        /\ {o.status : o \in orders} = {"shipped"}

\* The order rows there are: stored, or written by a createOrder in progress.
OrderRows == orders \cup UNION {req[c].txOrders : c \in Clients}

\* C16: from the step that writes an order row to the step that removes it,
\* the row's userId, status and totalCost do not change: a step leaves
\* every order row as it is or removes it, a new row gets an id no row ever
\* had, and the row a createOrder commits is the one it wrote.
OrdersNeverUpdated ==
    /\ [](\A o \in OrderRows : o.id < nextOrderId)
    /\ [][/\ \A o \in OrderRows : \A p \in OrderRows' :
              p.id = o.id => /\ p.userId = o.userId
                             /\ p.status = o.status
                             /\ p.totalCost = o.totalCost
          /\ \A p \in OrderRows' \ OrderRows :
              p.id = nextOrderId /\ nextOrderId' = nextOrderId + 1
          /\ orders' \subseteq OrderRows
          /\ nextOrderId' >= nextOrderId]_vars

\* An order is stored after one of its items was removed and another one
\* added to it.
OrdersNeverUpdatedWitness ==
    \E c, d \in Clients : \E o \in orders :
        /\ req[c].op = "createOrderItem" /\ req[c].pc = "done"
        /\ req[d].op = "deleteOrderItem" /\ req[d].pc = "done"
        /\ \A i \in req[c].found.items \cup req[d].found.items :
               i.orderId = o.id
        /\ Ids(req[c].found.items) \subseteq Ids(items)
        /\ req[d].found.items \cap items = {}

\* C17: every stored order owns at least one stored order item, after any
\* sequence of createOrder, createOrderItem, deleteOrderItem, deleteOrder
\* and deleteUser.
OrdersOwnItems ==
    \A o \in orders : \E i \in items : i.orderId = o.id

\* C18 (requests served one at a time): a createUser whose name is shorter
\* than 2 or longer than 100 characters, or whose email is not a valid
\* address (IsEmail, taken as given), fails with ValidationError and stores
\* no user: the call is refused with the store unchanged, no such request
\* gets as far as writing a row, and no stored user has such a name or email.
InvalidUserRejected ==
    /\ [][\A c \in Clients :
           (req[c].pc = "idle" /\ req'[c].op = "createUser"
              /\ (\/ Len(req'[c].name) < 2
                  \/ Len(req'[c].name) > 100
                  \/ ~IsEmail(req'[c].email)))
           => /\ req'[c].pc = "failed"
              /\ req'[c].err = "ValidationError"
              /\ store' = store]_vars
    /\ [](\A c \in Clients :
            (req[c].op = "createUser" /\ req[c].pc \in {"tx", "inserted"})
            => /\ Len(req[c].name) \in 2..100
               /\ IsEmail(req[c].email))
    /\ [](\A u \in UserRows : Len(u.name) \in 2..100 /\ IsEmail(u.email))

\* A createUser with a name of 101 characters and a valid email that no
\* stored user has was refused.
InvalidUserRejectedWitness ==
    \E c \in Clients :
        /\ req[c].op = "createUser"
        /\ req[c].pc = "failed"
        /\ req[c].err = "ValidationError"
        /\ Len(req[c].name) = 101
        /\ IsEmail(req[c].email)
        /\ users # {}
        /\ \A u \in users : u.email # req[c].email

\* The steps of a createUser that has passed the validation: the write of
\* its row, and the commit.
SavesUser(c) ==
    req[c].op = "createUser" /\ req[c].pc = "tx" /\ req'[c] # req[c]
CommitsUser(c) ==
    req[c].op = "createUser" /\ req[c].pc = "inserted" /\ req'[c].pc = "done"

\* What a createUser with a name of 2 to 100 characters and a valid email
\* does: it is taken up; its row is written with the id and the timestamps
\* of the store (always, or unless a stored user has the email, which fails
\* with ConflictError and stores nothing); the commit adds that one user and
\* returns it, with an id that is not empty and that no other stored user
\* has, the given name and email, and createdAt <= updatedAt.
CreateUserOutcome(c, always) ==
    /\ (req[c].pc = "idle" /\ req'[c].op = "createUser"
          /\ Len(req'[c].name) \in 2..100 /\ IsEmail(req'[c].email))
       => req'[c].pc = "tx" /\ store' = store
    /\ SavesUser(c)
       => IF always \/ ~(\E u \in users : u.email = req[c].email)
            THEN /\ req'[c].pc = "inserted"
                 /\ store' = store
                 /\ \A u \in req'[c].txUsers :
                      /\ u.id = nextUserId
                      /\ u.createdAt \in Fields.times
                      /\ u.updatedAt \in Fields.times
            ELSE /\ req'[c].pc = "failed"
                 /\ req'[c].err = "ConflictError"
                 /\ store' = store
    /\ CommitsUser(c)
       => LET new == users' \ users
          IN  /\ users \subseteq users'
              /\ Cardinality(new) = 1
              /\ orders' = orders
              /\ items' = items
              /\ req'[c].found.users = new
              /\ \A u \in new :
                   /\ u.id # UnknownId
                   /\ u.id \notin Ids(users)
                   /\ u.name = req[c].name
                   /\ u.email = req[c].email
                   /\ u.createdAt <= u.updatedAt

\* C19 as stated (requests served one at a time): for every name of 2 to
\* 100 characters and every valid email, createUser succeeds, adds exactly
\* one user and returns it with a non-empty id assigned by the server that
\* no other stored user has and with timestamps assigned by the store,
\* createdAt <= updatedAt; the client sets none of the three.
CreateUserAlwaysSucceeds ==
    [][\A c \in Clients : CreateUserOutcome(c, TRUE)]_vars

\* C19, amended: the same for every such name and email that no stored
\* user has; with the email of a stored user the call fails with
\* ConflictError and stores nothing.
CreateUserSucceedsOnFreeEmail ==
    [][\A c \in Clients : CreateUserOutcome(c, FALSE)]_vars

\* A createUser with a name of 100 characters has returned its user, stored
\* next to an older user with other timestamps.
CreateUserSucceedsOnFreeEmailWitness ==
    \E c \in Clients : \E u \in req[c].found.users : \E v \in users :
        /\ req[c].op = "createUser"
        /\ req[c].pc = "done"
        /\ u \in users
        /\ Len(u.name) = 100
        /\ v.id < u.id
        /\ v.createdAt # u.createdAt

\* C20 (requests served one at a time): the user query for a stored id
\* returns that user with exactly the stored orders that reference it and
\* exactly the stored items that reference one of those orders; for an id
\* that is not stored it returns null and raises no error; in both cases
\* users, orders and items stay as they were.
UserQueryReturnsGraph ==
    [][\A c \in Clients :
         (req[c].pc = "idle" /\ req'[c].op = "user")
         => LET id == req'[c].id
                ret == req'[c].found
            IN  /\ req'[c].pc = "done"
                /\ req'[c].err = ""
                /\ store' = store
                /\ IF \E u \in users : u.id = id
                     THEN /\ ret.users = {u \in users : u.id = id}
                          /\ Cardinality(ret.users) = 1
                          /\ ret.orders = {o \in orders : o.userId = id}
                          /\ ret.items =
                                {i \in items : \E o \in orders :
                                    o.userId = id /\ i.orderId = o.id}
                     ELSE ret = NoGraph]_vars

\* The query has returned a user with an order of two items while an order
\* of another user is stored.
UserQueryReturnsGraphWitness ==
    \E c \in Clients :
        /\ req[c].op = "user"
        /\ req[c].pc = "done"
        /\ req[c].found.users # {}
        /\ Cardinality(req[c].found.orders) = 1
        /\ Cardinality(req[c].found.items) = 2
        /\ orders \ req[c].found.orders # {}
        /\ items \ req[c].found.items # {}

\* C21: the remove step of a successful deleteOrder changes nothing but the
\* order and its own items: users are as they were, the owning user among
\* them, every other order is stored as it was, every item of another order
\* is stored as it was, and no row is added.
DeleteOrderFrame ==
    [][\A c \in Clients :
         (req[c].op = "deleteOrder" /\ req[c].pc = "found"
            /\ req'[c].pc = "done")
         => LET id == req[c].id
            IN  /\ users' = users
                /\ \A o \in req[c].found.orders :
                       (\E u \in users : u.id = o.userId)
                       => \E u \in users' : u.id = o.userId
                /\ {o \in orders' : o.id # id} = {o \in orders : o.id # id}
                /\ {i \in items' : i.orderId # id}
                      = {i \in items : i.orderId # id}]_vars

\* An order has been deleted whose user has another order, stored with its
\* item, and is stored itself.
DeleteOrderFrameWitness ==
    \E c \in Clients : \E d \in req[c].found.orders : \E o \in orders :
        /\ req[c].op = "deleteOrder"
        /\ req[c].pc = "done"
        /\ d \notin orders
        /\ o.userId = d.userId
        /\ \E u \in users : u.id = d.userId
        /\ \E i \in items : i.orderId = o.id

\* C22 (requests served one at a time): the remove step of a successful
\* deleteOrderItem removes exactly the one item with the id and returns the
\* values that item had; the order of the item and every other item stay
\* stored as they were, and so do all users, also when the order is left
\* with no item.
DeleteOrderItemFrame ==
    [][\A c \in Clients :
         (req[c].op = "deleteOrderItem" /\ req[c].pc = "found"
            /\ req'[c].pc = "done")
         => LET gone == items \ items'
            IN  /\ Cardinality(gone) = 1
                /\ \A i \in gone : i.id = req[c].id
                /\ req'[c].found.items = gone
                /\ items' = {i \in items : i.id # req[c].id}
                /\ orders' = orders
                /\ \A i \in gone : \E o \in orders' : o.id = i.orderId
                /\ users' = users]_vars

\* The last item of an order has been deleted: the order is stored and has
\* no item, while an item of another order is stored.
DeleteOrderItemFrameWitness ==
    \E c \in Clients : \E d \in req[c].found.items : \E o \in orders :
        /\ req[c].op = "deleteOrderItem"
        /\ req[c].pc = "done"
        /\ d \notin items
        /\ o.id = d.orderId
        /\ ~(\E i \in items : i.orderId = o.id)
        /\ items # {}

\* The steps of the seed script that have cleared the three tables.
SeedCleared ==
    seed.pc \in {"users", "insertUsers", "orders", "insertOrders", "items",
                 "insertItems", "done"}

\* C23: the seed script, run on its own, keeps the references whole at
\* every step (every stored order has its user, every stored item its
\* order); it clears the items, then the orders, then the users, and then
\* inserts all users before any order and all orders before any item; the
\* emails it makes and the emails stored are pairwise distinct; it never
\* fails and it ends, with numUsers users, numUsers * numOrdersPerUser
\* orders and numUsers * numOrdersPerUser * numItemsPerOrder items stored.
SeedKeepsReferences ==
    /\ [](/\ \A o \in orders : \E u \in users : u.id = o.userId
          /\ \A i \in items : \E o \in orders : o.id = i.orderId)
    /\ [](/\ seed.pc = "clearOrders" => items = {}
          /\ seed.pc = "clearUsers" => orders = {} /\ items = {}
          /\ seed.pc = "users" => users = {} /\ orders = {} /\ items = {}
          /\ (SeedCleared /\ orders # {}) => Cardinality(users) = numUsers
          /\ (SeedCleared /\ items # {})
             => Cardinality(orders) = numUsers * numOrdersPerUser)
    /\ [](/\ \A j, k \in 1..Len(seed.users) :
                seed.users[j].email = seed.users[k].email => j = k
          /\ \A u, v \in users : u.email = v.email => u = v)
    /\ [](seed.pc # "failed")
    /\ [](seed.pc = "done"
            => /\ Cardinality(users) = numUsers
               /\ Cardinality(orders) = numUsers * numOrdersPerUser
               /\ Cardinality(items) =
                    numUsers * numOrdersPerUser * numItemsPerOrder
               /\ \A u \in users :
                    Cardinality(OrdersOfUser(u.id, orders)) = numOrdersPerUser
               /\ \A o \in orders :
                    Cardinality(ItemsOfOrders({o}, items)) = numItemsPerOrder)
    /\ <>(seed.pc = "done")

\* The script has inserted all its orders and the first batch of its items,
\* not yet the last, and one of its users has the email a@x.io.
SeedKeepsReferencesWitness ==
    /\ seed.pc = "insertItems"
    /\ seed.inserted > 0
    /\ Cardinality(items) = seed.inserted
    /\ Cardinality(orders) = numUsers * numOrdersPerUser
    /\ \E k \in 1..Len(seed.users) : seed.users[k].email = "a@x.io"

====
